---- MODULE Spec2Model ----
(***************************************************************************)
(* av_gate: a reverse proxy in front of Konnektor appliances.  One request *)
(* to a PHRService path is modelled from src/av_gate.py: the client        *)
(* routing (get_client_config), the upstream call (request_upstream), the  *)
(* MIME/XOP rewriter (run_antivirus and the functions it calls), the scan  *)
(* of each attachment by the ICAP backend (scan_file_icap) and the tail of *)
(* phr_service (EICAR assertion, create_response).  SpecIcap applies       *)
(* scan_file_icap alone to every reply of a larger family.                 *)
(*                                                                         *)
(* Bytes are modelled structurally.  A multipart body is the sequence of   *)
(* segments that splitting it by "\r\n--<boundary>" yields, together with  *)
(* the delimiter that separates them.  A segment is its Content-ID header  *)
(* line (separator after the colon, raw value), its                        *)
(* Content-Transfer-Encoding and its body.  Header values and hrefs are    *)
(* sequences of tokens, so that extract_id works on them as on strings.    *)
(***************************************************************************)
EXTENDS Integers, Sequences, FiniteSets, TLC

\* Largest number of attachments after the SOAP part in an upstream response.
MaxAtts == 2

VARIABLES
    REMOVE_MALICIOUS,     \* config: remove_malicious
    ALL_PNG_MALICIOUS,    \* config: all_png_malicious
    ALL_PDF_MALICIOUS,    \* config: all_pdf_malicious
    sections,             \* config: names of the client profile sections
    request_ip,           \* request.headers["X-real-ip"]
    host,                 \* request.host, as the list host.split(":")
    konnektor,            \* the response the Konnektor gives to this request
    pc,                   \* position of the request in phr_service
    client_config,        \* section chosen by get_client_config
    upstream,             \* response received by request_upstream
    icap_rsp,             \* the reply scan_file_icap read last
    scan_res,             \* results of scan_file, one per scanned attachment
    av,                   \* what run_antivirus computed
    response              \* what the client receives

vars == <<REMOVE_MALICIOUS, ALL_PNG_MALICIOUS, ALL_PDF_MALICIOUS, sections,
          request_ip, host, konnektor, pc, client_config, upstream,
          icap_rsp, scan_res, av, response>>

(***************************************************************************)
(* Sequences helpers                                                       *)
(***************************************************************************)
InList(x, s) == \E i \in 1..Len(s) : s[i] = x

\* index of the first element equal to x, 0 when there is none
IndexOf(x, s) ==
    IF InList(x, s) THEN CHOOSE i \in 1..Len(s) : s[i] = x /\ \A j \in 1..(i-1) : s[j] # x
    ELSE 0

(***************************************************************************)
(* Content-ID normalisation                                                *)
(***************************************************************************)
\* Python's None, where a content id is expected
PyNone == <<"None">>

\* urllib.parse.unquote on one token
unquote_token(t) ==
    CASE t = "%3C" -> "<"
      [] t = "%3E" -> ">"
      [] t = "%40" -> "@"
      [] OTHER -> t

unquote(id) == [i \in 1..Len(id) |-> unquote_token(id[i])]

extract_id(raw) ==
    LET id0 == unquote(raw)
        id1 == IF Len(id0) > 0 /\ id0[1] = "cid:" THEN SubSeq(id0, 2, Len(id0)) ELSE id0
        id2 == IF Len(id1) > 0 /\ id1[1] = "<" THEN SubSeq(id1, 2, Len(id1) - 1) ELSE id1
        id3 == IF InList("@", id2) THEN SubSeq(id2, 1, IndexOf("@", id2) - 1) ELSE id2
    IN id3

\* re.search(b"\r\nContent-ID: (.*?)\r\n", content, re.I): the pattern asks for
\* exactly "Content-ID: " and captures the rest of the line
get_content_id(part) ==
    IF part.cidsep = ": " THEN extract_id(part.cid) ELSE PyNone

(***************************************************************************)
(* XML of the SOAP part                                                    *)
(***************************************************************************)
NoXml == [rdsr |-> FALSE, status |-> "", errlists |-> <<>>, docs |-> <<>>, reser |-> FALSE]

StatusSuccess == "urn:oasis:names:tc:ebxml-regrep:ResponseStatusType:Success"
StatusPartial == "urn:ihe:iti:2007:ResponseStatusType:PartialSuccess"
StatusFailure == "urn:oasis:names:tc:ebxml-regrep:ResponseStatusType:Failure"
SeverityError == "urn:oasis:names:tc:ebxml-regrep:ErrorSeverityType:Error"

\* the value handle_attachment hands to add_error_msg as document_id: the lxml
\* element document_xml, whose str() is its repr
PyElement(element) == [py |-> "Element", text |-> "<Element DocumentResponse at 0x>"]

\* what the f-string of line 441 puts for {document_id}
Format(v) == v.text

MalwareText(s) == <<"Document was detected as malware for uniqueId '", s, "'.">>

add_error_msg(document_id, xml_errlist) ==
    Append(xml_errlist,
           [codeContext |-> MalwareText(Format(document_id)),
            errorCode |-> "XDSDocumentUniqueIdError",
            severity |-> SeverityError])

NoDocumentsError ==
    [codeContext |-> <<"No documents found for unique ids in request">>,
     errorCode |-> "XDSRegistryMetadataError",
     severity |-> SeverityError]

\* fix_status: n_parts is len(msg.get_payload()); returns the new status and list
fix_status(status, xml_errlist, n_parts) ==
    IF n_parts > 1
    THEN [status |-> StatusPartial, errlist |-> xml_errlist]
    ELSE [status |-> StatusFailure, errlist |-> Append(xml_errlist, NoDocumentsError)]

(***************************************************************************)
(* Replacement store                                                       *)
(***************************************************************************)
\* mime types for which the directory "replacements" holds a file
replacement_files == {"application/pdf", "text/plain"}

\* content of the file replacement_files[mimetype]
ReplacementBody(mimetype) ==
    [t |-> "replacement", d |-> mimetype, id |-> 0, enc |-> "raw", xml |-> NoXml]

get_replacement(mimetype) ==
    IF mimetype \in replacement_files THEN ReplacementBody(mimetype)
    ELSE ReplacementBody("text/plain")

(***************************************************************************)
(* Parsed MIME message (email.parser, policy=default)                      *)
(***************************************************************************)
\* get_payload(decode=True) of a non-text part: a base64 part is decoded, and
\* decoding bytes that are no base64 text yields other bytes
Decode(cte, body) ==
    IF cte = "base64"
    THEN [body EXCEPT !.enc = IF body.enc = "b64" THEN "raw" ELSE "garbled"]
    ELSE body

get_content(part) == Decode(part.cte, part.body)

set_payload(part, body) == [part EXCEPT !.body = body]

\* msg.iter_parts(): the segments that are parts (not the closing "--")
iter_parts(content) == SelectSeq(content.segs, LAMBDA s : s.part)

\* msg.iter_attachments() of a multipart/related message: all but the root
iter_attachments(parts) == Tail(parts)

StartsWithPNG(content) == content.t = "doc" /\ content.d = "png" /\ content.enc = "raw"
StartsWithPDF(content) == content.t = "doc" /\ content.d = "pdf" /\ content.enc = "raw"

\* b"$EICAR-STANDARD-ANTIVIRUS-TEST-FILE!$H+H*" in <bytes of one body>
HasEICAR(body) == body.t = "doc" /\ body.d = "eicar" /\ body.enc = "raw"

ContainsEICAR(content) == \E i \in 1..Len(content.segs) : HasEICAR(content.segs[i].body)

(***************************************************************************)
(* Scan pass                                                               *)
(***************************************************************************)
test_malicous(att, png, pdf) ==
    \/ png /\ StartsWithPNG(get_content(att))
    \/ pdf /\ StartsWithPDF(get_content(att))

\* scan_res[0] != "OK" or test_malicous(att)
Malicious(att, res, png, pdf) == res[1] # "OK" \/ test_malicous(att, png, pdf)

RECURSIVE get_malicious_content_ids(_, _, _, _)
\* the content ids the generator yields, in order; results[i] is what
\* scan_file returned for the i-th attachment
get_malicious_content_ids(atts, results, png, pdf) ==
    IF atts = <<>> THEN <<>>
    ELSE LET rest == get_malicious_content_ids(Tail(atts), Tail(results), png, pdf)
         IN IF Malicious(Head(atts), Head(results), png, pdf)
            THEN <<extract_id(Head(atts).cid)>> \o rest
            ELSE rest

(***************************************************************************)
(* Mutation of the message and of the XML                                  *)
(***************************************************************************)
\* xml_documents: position of the DocumentResponse kept for content_id (the
\* last one with that id), 0 when the dictionary has no such key
xml_documents(docs, content_id) ==
    LET S == {i \in 1..Len(docs) : extract_id(docs[i].href) = content_id}
    IN IF S = {} THEN 0 ELSE CHOOSE i \in S : \A j \in S : j <= i

\* One call of handle_attachment on the state st of the rewrite:
\*   parts   msg.get_payload()           removed  positions of removed documents
\*   errlist children of xml_errlist     failed   an exception was raised
handle_attachment(st, docs, virus_atts, remove, att) ==
    LET content_id == extract_id(att.cid)
        k == xml_documents(docs, content_id)
    IN IF st.failed THEN st
       ELSE IF k = 0 \/ k \in st.removed THEN [st EXCEPT !.failed = TRUE]
       ELSE IF InList(content_id, virus_atts)
            THEN IF remove
                 THEN [st EXCEPT !.errlist = add_error_msg(PyElement(docs[k]), st.errlist),
                                 !.removed = st.removed \cup {k}]
                 ELSE [st EXCEPT !.parts =
                          Append(st.parts, set_payload(att, get_replacement(docs[k].mimeType)))]
            ELSE [st EXCEPT !.parts = Append(st.parts, att)]

RECURSIVE handle_attachments(_, _, _, _, _)
\* the loop "for att in attachments: handle_attachment(...)"
handle_attachments(st, docs, virus_atts, remove, atts) ==
    IF atts = <<>> THEN st
    ELSE handle_attachments(handle_attachment(st, docs, virus_atts, remove, Head(atts)),
                            docs, virus_atts, remove, Tail(atts))

(***************************************************************************)
(* Splice                                                                  *)
(***************************************************************************)
Delimiter(boundary) == <<"\r\n--", boundary>>

\* next((a for a in msg.iter_parts() if content_id == extract_id(a.get("Content-ID", ""))), None):
\* position of the part in parts, 0 for None
FindPart(parts, content_id) ==
    LET S == {i \in 1..Len(parts) : extract_id(parts[i].cid) = content_id}
    IN IF S = {} THEN 0 ELSE CHOOSE i \in S : \A j \in S : i <= j

\* mutant: every segment is written again from its parsed content
SplicePart_reserialize(part, parts, virus_atts, remove) ==
    LET content_id == get_content_id(part)
        k == FindPart(parts, content_id)
    IN IF k # 0 THEN <<[part EXCEPT !.body = get_content(parts[k])]>>
       ELSE IF InList(content_id, virus_atts) THEN <<>> ELSE <<part>>

\* what one segment of res.content.split(boundary) adds to payload
SplicePart(part, parts, virus_atts, remove) ==
    LET content_id == get_content_id(part)
        k == FindPart(parts, content_id)
    IN IF InList(content_id, virus_atts) \/ (content_id = <<"root.message">> /\ remove)
       THEN IF k # 0 THEN <<[part EXCEPT !.body = get_content(parts[k])]>> ELSE <<>>
       ELSE <<part>>

RECURSIVE SpliceAll(_, _, _, _)
SpliceAll(segs, parts, virus_atts, remove) ==
    IF segs = <<>> THEN <<>>
    ELSE SplicePart(Head(segs), parts, virus_atts, remove)
         \o SpliceAll(Tail(segs), parts, virus_atts, remove)

\* build_payload, once the boundary was found in the Content-Type
build_payload(parts, virus_atts, res, remove) ==
    [delim |-> Delimiter(res.contentType.boundary),
     segs  |-> SpliceAll(res.content.segs, parts, virus_atts, remove)]

(***************************************************************************)
(* run_antivirus                                                           *)
(***************************************************************************)
NoContent == [delim |-> <<>>, segs |-> <<>>]

\* run_antivirus returned None: nothing to rewrite
ReturnNone(virus_atts, xml) ==
    [kind |-> "none", data |-> NoContent, virus_atts |-> virus_atts, xml |-> xml]

\* an exception left run_antivirus
Raised == [kind |-> "raise", data |-> NoContent, virus_atts |-> <<>>, xml |-> NoXml]

\* "if not xml_errlist": find() gave None, or an element without children
NotElement(errlists) == errlists = <<>> \/ Len(errlists[1]) = 0

\* lines 331-334: the children of RegistryResponse that are RegistryErrorLists,
\* after a new list was appended where find() gave no element with children
WithErrList(errlists) ==
    IF NotElement(errlists) THEN Append(errlists, <<>>) ELSE errlists

\* position of xml_errlist among them
ErrListAt(errlists) == IF NotElement(errlists) THEN Len(errlists) + 1 ELSE 1

\* lines 348-353: msg.set_payload([soap_part]) and the loop over the attachments
Mutate(parts, virus_atts, remove) ==
    LET xml == Head(parts).body.xml
    IN handle_attachments(
           [parts |-> <<Head(parts)>>, removed |-> {},
            errlist |-> WithErrList(xml.errlists)[ErrListAt(xml.errlists)],
            failed |-> FALSE],
           xml.docs, virus_atts, remove, iter_attachments(parts))

\* the DocumentResponse elements left after response_xml.remove(...)
Remaining(docs, removed) ==
    LET marked == [i \in 1..Len(docs) |-> [doc |-> docs[i], gone |-> i \in removed]]
        left   == SelectSeq(marked, LAMBDA m : ~m.gone)
    IN [i \in 1..Len(left) |-> left[i].doc]

\* the XML tree after the loop and, in remove mode, fix_status (lines 355-356)
MutatedXml(xml, st, remove) ==
    LET fixed == IF remove THEN fix_status(xml.status, st.errlist, Len(st.parts))
                 ELSE [status |-> xml.status, errlist |-> st.errlist]
    IN [rdsr     |-> TRUE,
        status   |-> fixed.status,
        errlists |-> [WithErrList(xml.errlists) EXCEPT ![ErrListAt(xml.errlists)] = fixed.errlist],
        docs     |-> Remaining(xml.docs, st.removed),
        reser    |-> TRUE]

\* lines 358-365, st being the state the loop left
Emit(res, soap_part, virus_atts, remove, st, xml1) ==
    IF st.failed \/ ~res.contentType.quoted THEN Raised
    ELSE [kind |-> "payload",
          data |-> build_payload(
                      \* soap_part.set_payload(ET.tostring(xml), charset="utf-8")
                      <<IF remove THEN set_payload(soap_part, [soap_part.body EXCEPT !.xml = xml1])
                        ELSE soap_part>> \o Tail(st.parts),
                      virus_atts, res, remove),
          virus_atts |-> virus_atts,
          xml |-> xml1]

Finish(res, soap_part, virus_atts, remove, st) ==
    Emit(res, soap_part, virus_atts, remove, st, MutatedXml(soap_part.body.xml, st, remove))

\* the body of "if virus_atts:" (lines 323-365); no scan raised
Rewrite(res, parts, virus_atts, remove) ==
    Finish(res, Head(parts), virus_atts, remove, Mutate(parts, virus_atts, remove))

\* results: what scan_file returned for each attachment
run_antivirus(res, results, remove, png, pdf) ==
    IF ~res.contentType.multipart THEN ReturnNone(<<>>, NoXml)
    ELSE LET parts == iter_parts(res.content)
             xml   == Head(parts).body.xml
         IN IF ~xml.rdsr THEN ReturnNone(<<>>, xml)
            ELSE LET virus_atts == get_malicious_content_ids(
                                       iter_attachments(parts), results, png, pdf)
                 IN IF virus_atts = <<>> THEN ReturnNone(<<>>, xml)
                    ELSE Rewrite(res, parts, virus_atts, remove)

\* the attachments run_antivirus hands to scan_file
Scanned(res) ==
    IF res.contentType.multipart /\ Head(iter_parts(res.content)).body.xml.rdsr
    THEN iter_attachments(iter_parts(res.content))
    ELSE <<>>

(***************************************************************************)
(* The ICAP backend.  A reply is what scan_file_icap has in rsp:            *)
(*   open        _open_sock connected                                       *)
(*   blank       rsp holds "\r\n\r\n"                                       *)
(*   first_line  the first line of the block before it                      *)
(*   http        the first line of the block after it ("" when rsp ends     *)
(*               with the ICAP header block)                                *)
(*   infection   the value of the X-Infection-Found header of the block     *)
(*               before it, as tokens (<<>> without such a header)          *)
(***************************************************************************)
Icap204 == "ICAP/1.0 204 No modifications needed"
Icap200 == "ICAP/1.0 200 OK"
Http403 == "HTTP/1.0 403 Forbidden"

IcapReply(open, blank, first_line, http, infection) ==
    [open |-> open, blank |-> blank, first_line |-> first_line,
     http |-> http, infection |-> infection]

NoReply == IcapReply(FALSE, FALSE, "-", "", <<>>)

\* "X-Infection-Found: Type=0; Resolution=2; Threat=Eicar;"
StdInfection == <<"Type=0", ";", "Resolution=2", ";", "Threat=", "Eicar", ";">>

\* values of the X-Infection-Found header: none, the usual one, Threat as the
\* first parameter, Threat without the closing ";", no Threat parameter
Infections ==
    { <<>>,
      StdInfection,
      <<"Threat=", "Eicar", ";", "Type=0", ";">>,
      <<"Type=0", ";", "Threat=", "Eicar">>,
      <<"Type=0", ";">> }

NoMatch == <<"no match">>

\* re.search(b"X-Infection-Found: .*Threat=(.*);", first_block): both ".*"
\* are greedy, so the group starts after the last "Threat=" that a ";"
\* follows and ends before the last ";" of the line
ThreatMatch(h) ==
    LET semis == {j \in 1..Len(h) : h[j] = ";"}
        cands == {i \in 1..Len(h) : h[i] = "Threat=" /\ \E j \in semis : j > i}
    IN IF cands = {} THEN NoMatch
       ELSE SubSeq(h, (CHOOSE i \in cands : \A k \in cands : k <= i) + 1,
                      (CHOOSE j \in semis : \A k \in semis : k <= j) - 1)

IcapReplies ==
    { IcapReply(FALSE, FALSE, "", "", <<>>),               \* connection refused
      IcapReply(TRUE, FALSE, "", "", <<>>),                \* EOF before any byte
      IcapReply(TRUE, TRUE, Icap204, "", <<>>),
      IcapReply(TRUE, TRUE, Icap200, Http403, StdInfection),
      IcapReply(TRUE, TRUE, Icap200, Http403, <<>>),
      IcapReply(TRUE, TRUE, Icap200, "HTTP/1.0 200 OK", <<>>),
      IcapReply(TRUE, TRUE, Icap200, "", <<>>),            \* EOF after the ICAP headers
      IcapReply(TRUE, TRUE, "ICAP/1.0 500 Server error", "", <<>>) }

\* every reply over the first lines, status lines and headers below; without
\* a connection nothing is read, without the blank line there is no second block
IcapFirstLines == {"", Icap204, Icap200, "ICAP/1.0 500 Server error"}
IcapStatusLines == {"", Http403, "HTTP/1.0 200 OK", "HTTP/1.1 403 Forbidden"}

AllIcapReplies ==
    {IcapReply(FALSE, FALSE, "", "", <<>>)}
    \cup {IcapReply(TRUE, FALSE, f, "", h) : f \in IcapFirstLines, h \in Infections}
    \cup {IcapReply(TRUE, TRUE, f, c, h) :
              f \in IcapFirstLines, c \in IcapStatusLines, h \in Infections}

ScanRaises == [raises |-> TRUE, value |-> <<>>]
ScanReturns(verdict, signature) == [raises |-> FALSE, value |-> <<verdict, signature>>]

scan_file_icap(rsp) ==
    IF ~rsp.open THEN ScanRaises                           \* _open_sock raises
    ELSE IF ~rsp.blank THEN ScanRaises                     \* the unpacking of split raises
    ELSE IF rsp.first_line = Icap204 THEN ScanReturns("OK", PyNone)
    ELSE IF rsp.first_line # Icap200 THEN ScanRaises
    ELSE IF rsp.http # Http403 THEN ScanReturns("OK", PyNone)
    ELSE IF ThreatMatch(rsp.infection) # NoMatch
         THEN ScanReturns("FOUND", ThreatMatch(rsp.infection))
    ELSE ScanReturns("FOUND", <<"unknown">>)

(***************************************************************************)
(* Upstream responses                                                      *)
(***************************************************************************)
DocName(i) == "doc" \o ToString(i)

AttShapes == [sep : {": "}, kind : {"pdf", "png", "eicar"}] \cup [sep : {":"}, kind : {"pdf"}]

MimeOf(kind) ==
    CASE kind = "pdf" -> "application/pdf"
      [] kind = "png" -> "image/png"
      [] OTHER -> "application/octet-stream"

AttSegment(i, shape, cte) ==
    [part |-> TRUE, cidsep |-> shape.sep, cid |-> <<"<", DocName(i), "@", "k", ">">>,
     cte |-> cte,
     body |-> [t |-> "doc", d |-> shape.kind, id |-> i,
               enc |-> IF cte = "base64" THEN "b64" ELSE "raw", xml |-> NoXml]]

DocumentResponse(i, shape) ==
    [href |-> <<"cid:", DocName(i), "%40", "k">>, uid |-> "uid" \o ToString(i),
     mimeType |-> MimeOf(shape.kind)]

UpstreamError ==
    [codeContext |-> <<"upstream">>, errorCode |-> "XDSMissingDocument",
     severity |-> SeverityError]

\* RegistryResponse without a RegistryErrorList, with an empty one, with one error
ErrLists == {<<>>, << <<>> >>, << <<UpstreamError>> >>}

SoapSegment(name, xml) ==
    [part |-> TRUE, cidsep |-> ": ", cid |-> <<"<", name, "@", "cxf.apache.org", ">">>,
     cte |-> "binary",
     body |-> [t |-> "xml", d |-> "", id |-> 0, enc |-> "raw", xml |-> xml]]

ClosingSegment ==
    [part |-> FALSE, cidsep |-> "", cid |-> <<>>, cte |-> "",
     body |-> [t |-> "end", d |-> "--", id |-> 0, enc |-> "raw", xml |-> NoXml]]

Multipart(shapes, cte, soapname, errlists, rdsr, quoted) ==
    LET n == Len(shapes)
        xml == [rdsr |-> rdsr, status |-> StatusSuccess, errlists |-> errlists,
                docs |-> [i \in 1..n |-> DocumentResponse(i, shapes[i])],
                reser |-> FALSE]
    IN [status |-> "200",
        contentType |-> [multipart |-> TRUE, quoted |-> quoted, boundary |-> "uuid:b1"],
        content |-> [delim |-> Delimiter("uuid:b1"),
                     segs |-> <<SoapSegment(soapname, xml)>>
                              \o [i \in 1..n |-> AttSegment(i, shapes[i], cte)]
                              \o <<ClosingSegment>>]]

ShapeSeqs == UNION {[1..n -> AttShapes] : n \in 0..MaxAtts}

\* RetrieveDocumentSet responses: binary attachments under every upstream
\* RegistryErrorList, under another SOAP Content-ID, and base64 attachments
RetrieveResponses ==
    {Multipart(sh, "binary", "root.message", el, TRUE, TRUE) :
        sh \in ShapeSeqs, el \in ErrLists}
    \cup {Multipart(sh, "binary", "soap", <<>>, TRUE, TRUE) : sh \in ShapeSeqs}
    \cup {Multipart(sh, "base64", "root.message", <<>>, TRUE, TRUE) : sh \in ShapeSeqs}

\* a multipart response of another operation, a boundary without quotes
OtherResponses ==
    {Multipart(sh, "binary", "root.message", <<>>, r, q) :
        sh \in [1..1 -> AttShapes], r \in BOOLEAN, q \in BOOLEAN}

PlainResponse ==
    [status |-> "200",
     contentType |-> [multipart |-> FALSE, quoted |-> FALSE, boundary |-> ""],
     content |-> [delim |-> <<>>,
                  segs |-> <<[part |-> FALSE, cidsep |-> "", cid |-> <<>>, cte |-> "",
                              body |-> [t |-> "text", d |-> "soap", id |-> 0,
                                        enc |-> "raw", xml |-> NoXml]]>>]]

Upstreams == RetrieveResponses \cup OtherResponses \cup {PlainResponse}

NoResponse ==
    [status |-> "", contentType |-> [multipart |-> FALSE, quoted |-> FALSE, boundary |-> ""],
     content |-> NoContent]

(***************************************************************************)
(* Client routing                                                          *)
(***************************************************************************)
SectionName(ip, port) == <<ip, ":", port>>

NoSection == <<>>

Ips == {"10.0.0.1", "10.0.0.2"}

\* request.host.split(":") of "konn", "konn:443", "konn:8443", "[::1]:8443"
Hosts == {<<"konn">>, <<"konn", "443">>, <<"konn", "8443">>, <<"[", "", "1]", "8443">>}

AllSections == {SectionName(ip, p) : ip \in {"10.0.0.1", "*"}, p \in {"443", "8443"}}

\* port = request.host.split(":")[1] if ":" in request.host else "443"
RequestPort(h) == IF Len(h) > 1 THEN h[2] ELSE "443"

\* the section get_client_config returns, NoSection when it aborts with 503
get_client_config(ip, h, secs) ==
    LET port == RequestPort(h)
        client == SectionName(ip, port)
        fallback == SectionName("*", port)
    IN IF client \in secs THEN client
       ELSE IF fallback \notin secs THEN NoSection
       ELSE fallback

(***************************************************************************)
(* The request                                                             *)
(***************************************************************************)
NoAv == [kind |-> "pending", data |-> NoContent, virus_atts |-> <<>>, xml |-> NoXml]

NoAnswer == [kind |-> "pending", status |-> "", body |-> NoContent]

\* abort(code), or an exception that reaches the framework (code 500)
Failure(code) == [kind |-> "error", status |-> code, body |-> NoContent]

InitRewrite ==
    /\ REMOVE_MALICIOUS \in BOOLEAN
    /\ ALL_PNG_MALICIOUS \in BOOLEAN
    /\ ALL_PDF_MALICIOUS \in BOOLEAN
    /\ sections = {SectionName("*", "443")}
    /\ request_ip = "10.0.0.1"
    /\ host = <<"konn">>
    /\ konnektor \in Upstreams

InitRouting ==
    /\ REMOVE_MALICIOUS = FALSE
    /\ ALL_PNG_MALICIOUS = FALSE
    /\ ALL_PDF_MALICIOUS = FALSE
    /\ sections \in SUBSET AllSections
    /\ request_ip \in Ips
    /\ host \in Hosts
    /\ konnektor = PlainResponse

Init ==
    /\ InitRewrite \/ InitRouting
    /\ pc = "get_client_config"
    /\ client_config = NoSection
    /\ upstream = NoResponse
    /\ icap_rsp = NoReply
    /\ scan_res = <<>>
    /\ av = NoAv
    /\ response = NoAnswer

Config == <<REMOVE_MALICIOUS, ALL_PNG_MALICIOUS, ALL_PDF_MALICIOUS, sections>>
Request == <<request_ip, host, konnektor>>

\* phr_service, line 167
GetClientConfig ==
    /\ pc = "get_client_config"
    /\ client_config' = get_client_config(request_ip, host, sections)
    /\ IF client_config' = NoSection
       THEN pc' = "done" /\ response' = Failure("503")
       ELSE pc' = "request_upstream" /\ response' = response
    /\ UNCHANGED <<Config, Request, upstream, icap_rsp, scan_res, av>>

\* phr_service, line 168: the Konnektor answers
RequestUpstream ==
    /\ pc = "request_upstream"
    /\ upstream' = konnektor
    /\ pc' = "run_antivirus"
    /\ UNCHANGED <<Config, Request, client_config, icap_rsp, scan_res, av, response>>

\* phr_service, line 168: requests.request raises, abort(502)
RequestUpstreamFails ==
    /\ pc = "request_upstream"
    /\ pc' = "done"
    /\ response' = Failure("502")
    /\ UNCHANGED <<Config, Request, client_config, upstream, icap_rsp, scan_res, av>>

\* get_malicious_content_ids, line 403: scan_file for the next attachment; an
\* exception leaves the generator, run_antivirus and phr_service
ScanFile ==
    /\ pc = "run_antivirus"
    /\ Len(scan_res) < Len(Scanned(upstream))
    /\ \E rsp \in IcapReplies :
          /\ icap_rsp' = rsp
          /\ IF scan_file_icap(rsp).raises
             THEN /\ pc' = "done"
                  /\ response' = Failure("500")
                  /\ scan_res' = scan_res
             ELSE /\ pc' = pc
                  /\ response' = response
                  /\ scan_res' = Append(scan_res, scan_file_icap(rsp).value)
    /\ UNCHANGED <<Config, Request, client_config, upstream, av>>

\* phr_service, line 169: run_antivirus once every attachment is scanned
RunAntivirus ==
    /\ pc = "run_antivirus"
    /\ Len(scan_res) = Len(Scanned(upstream))
    /\ av' = run_antivirus(upstream, scan_res, REMOVE_MALICIOUS,
                           ALL_PNG_MALICIOUS, ALL_PDF_MALICIOUS)
    /\ icap_rsp' = NoReply
    /\ IF av'.kind = "raise"
       THEN pc' = "done" /\ response' = Failure("500")
       ELSE pc' = "create_response" /\ response' = response
    /\ UNCHANGED <<Config, Request, client_config, upstream, scan_res>>

\* mutant: the rewriter's result is used also when it is None
NewBody_always(a, res) == a.data

\* "if not data: data = upstream.content"
NewBody(a, res) == IF a.kind = "none" THEN res.content ELSE a.data

\* mutant: the assertion is compiled away
EicarAssertion_off(data) == TRUE

\* the assert of lines 175-177
EicarAssertion(data) == ~ContainsEICAR(data)

\* create_response(data, upstream)
create_response(data, res) == [kind |-> "ok", status |-> res.status, body |-> data]

\* phr_service, lines 171-181
CreateResponse ==
    /\ pc = "create_response"
    /\ LET data == NewBody(av, upstream)
       IN response' = IF EicarAssertion(data) THEN create_response(data, upstream)
                      ELSE Failure("500")
    /\ pc' = "done"
    /\ UNCHANGED <<Config, Request, client_config, upstream, icap_rsp, scan_res, av>>

Next ==
    \/ GetClientConfig
    \/ RequestUpstream
    \/ RequestUpstreamFails
    \/ ScanFile
    \/ RunAntivirus
    \/ CreateResponse

Spec == Init /\ [][Next]_vars

(***************************************************************************)
(* scan_file_icap alone: one call for every reply of AllIcapReplies         *)
(***************************************************************************)
InitIcap ==
    /\ REMOVE_MALICIOUS = FALSE
    /\ ALL_PNG_MALICIOUS = FALSE
    /\ ALL_PDF_MALICIOUS = FALSE
    /\ sections = {SectionName("*", "443")}
    /\ request_ip = "10.0.0.1"
    /\ host = <<"konn">>
    /\ konnektor = PlainResponse
    /\ client_config = NoSection
    /\ upstream = NoResponse
    /\ av = NoAv
    /\ response = NoAnswer
    /\ pc = "scan_file_icap"
    /\ icap_rsp \in AllIcapReplies
    /\ scan_res = <<>>

\* scan_res = scan_file(...), or the exception of scan_file_icap
ScanFileIcap ==
    /\ pc = "scan_file_icap"
    /\ IF scan_file_icap(icap_rsp).raises
       THEN pc' = "raised" /\ scan_res' = scan_res
       ELSE pc' = "returned" /\ scan_res' = <<scan_file_icap(icap_rsp).value>>
    /\ UNCHANGED <<Config, Request, client_config, upstream, icap_rsp, av, response>>

NextIcap == ScanFileIcap

SpecIcap == InitIcap /\ [][NextIcap]_vars

(***************************************************************************)
(* What the claims speak about                                             *)
(***************************************************************************)
Answered == pc = "done" /\ response.kind = "ok"

\* a rewritten body was returned to the client
Rewritten == Answered /\ av.kind = "payload"

UpSegs == upstream.content.segs
OutSegs == response.body.segs

\* the attachments of the upstream response the rewriter scans
UpAtts == Scanned(upstream)

\* the attachments of the emitted body: its parts after the first
OutAtts == Tail(SelectSeq(OutSegs, LAMBDA g : g.part))

\* attachment i is infected: the verdict is not OK, or a test override applies
Infected(i) ==
    /\ i \in 1..Len(scan_res)
    /\ \/ scan_res[i][1] # "OK"
       \/ ALL_PNG_MALICIOUS /\ get_content(UpAtts[i]).d = "png"
       \/ ALL_PDF_MALICIOUS /\ get_content(UpAtts[i]).d = "pdf"

InfectedSet == {i \in 1..Len(UpAtts) : Infected(i)}

SameHeaders(a, b) ==
    a.part = b.part /\ a.cidsep = b.cidsep /\ a.cid = b.cid /\ a.cte = b.cte

\* C1: the body returned to the client never holds the original body of an
\* infected attachment
C1_InfectedBodyNeverEmitted ==
    Answered =>
        \A i \in InfectedSet : \A j \in 1..Len(OutSegs) : OutSegs[j].body # UpAtts[i].body

\* C2: when the rewriter finds no infected attachment (also when it does not
\* scan), the body emitted equals the upstream body
C2_CleanPassThrough ==
    (Answered /\ InfectedSet = {}) => response.body = upstream.content

C2_Witness ==
    /\ Answered
    /\ Len(UpAtts) = 2
    /\ InfectedSet = {}
    /\ scan_res = << <<"OK", PyNone>>, <<"OK", PyNone>> >>
    /\ response.body = upstream.content

\* the mimeType of the DocumentResponse whose href normalises to c
MimeTypeOf(c) ==
    LET docs == UpSegs[1].body.xml.docs
    IN docs[CHOOSE k \in 1..Len(docs) : extract_id(docs[k].href) = c].mimeType

\* the placeholder of the replacement store for a mime type
Placeholder(m) ==
    IF m \in replacement_files THEN ReplacementBody(m) ELSE ReplacementBody("text/plain")

\* C3: after a replace-mode rewrite every infected Content-ID has exactly one
\* attachment in the emitted body, with the upstream headers and the
\* placeholder of its document's mimeType as body
C3_ReplacedByPlaceholder ==
    (Rewritten /\ ~REMOVE_MALICIOUS) =>
        \A i \in InfectedSet :
            LET c == extract_id(UpAtts[i].cid)
                hits == {j \in 1..Len(OutAtts) : extract_id(OutAtts[j].cid) = c}
            IN /\ Cardinality(hits) = 1
               /\ \A j \in hits : /\ SameHeaders(OutAtts[j], UpAtts[i])
                                  /\ OutAtts[j].body = Placeholder(MimeTypeOf(c))

\* the DocumentResponse elements of the emitted SOAP part
OutDocs == OutSegs[1].body.xml.docs

\* C4: after a rewrite, the DocumentResponse elements of the emitted SOAP XML
\* and the emitted attachments correspond one to one by normalised Content-ID
C4_DocumentsMatchAttachments ==
    Rewritten =>
        /\ \A k \in 1..Len(OutDocs) :
              Cardinality({j \in 1..Len(OutAtts) :
                             extract_id(OutAtts[j].cid) = extract_id(OutDocs[k].href)}) = 1
        /\ \A j \in 1..Len(OutAtts) :
              Cardinality({k \in 1..Len(OutDocs) :
                             extract_id(OutDocs[k].href) = extract_id(OutAtts[j].cid)}) = 1

\* all RegistryError elements of an XML tree
AllErrors(xml) == IF xml.errlists = <<>> THEN <<>>
                  ELSE IF Len(xml.errlists) = 1 THEN xml.errlists[1]
                  ELSE xml.errlists[1] \o xml.errlists[2]

CountErrors(xml, code) ==
    Cardinality({n \in 1..Len(AllErrors(xml)) : AllErrors(xml)[n].errorCode = code})

\* C5: after a remove-mode rewrite the emitted RegistryResponse/@status is
\* PartialSuccess when an attachment remains in the envelope, and otherwise
\* Failure with exactly one more XDSRegistryMetadataError
C5_OverallStatus ==
    (Rewritten /\ REMOVE_MALICIOUS) =>
        LET xml == OutSegs[1].body.xml
        IN IF Len(OutAtts) >= 1
           THEN xml.status = StatusPartial
           ELSE /\ xml.status = StatusFailure
                /\ CountErrors(xml, "XDSRegistryMetadataError")
                      = CountErrors(UpSegs[1].body.xml, "XDSRegistryMetadataError") + 1
                /\ \E n \in 1..Len(AllErrors(xml)) :
                      /\ AllErrors(xml)[n].errorCode = "XDSRegistryMetadataError"
                      /\ AllErrors(xml)[n].severity = SeverityError
                      /\ AllErrors(xml)[n].codeContext
                            = <<"No documents found for unique ids in request">>

\* the DocumentUniqueId text of the document of attachment i
UidOf(i) ==
    LET docs == UpSegs[1].body.xml.docs
        c == extract_id(UpAtts[i].cid)
    IN docs[CHOOSE k \in 1..Len(docs) : extract_id(docs[k].href) = c].uid

\* C6: after a remove-mode rewrite the emitted RegistryResponse has one
\* RegistryErrorList, which holds for every infected attachment exactly one
\* XDSDocumentUniqueIdError naming the DocumentUniqueId of the document
C6_ErrorPerRemovedDocument ==
    (Rewritten /\ REMOVE_MALICIOUS) =>
        LET xml == OutSegs[1].body.xml
        IN /\ Len(xml.errlists) = 1
           /\ CountErrors(xml, "XDSDocumentUniqueIdError") = Cardinality(InfectedSet)
           /\ \A i \in InfectedSet :
                 Cardinality({n \in 1..Len(AllErrors(xml)) :
                     /\ AllErrors(xml)[n].errorCode = "XDSDocumentUniqueIdError"
                     /\ AllErrors(xml)[n].severity = SeverityError
                     /\ AllErrors(xml)[n].codeContext =
                          <<"Document was detected as malware for uniqueId '", UidOf(i), "'.">>
                     }) = 1

\* the bytes of the EICAR signature stand in a body
EicarIn(content) ==
    \E j \in 1..Len(content.segs) :
        /\ content.segs[j].body.t = "doc"
        /\ content.segs[j].body.d = "eicar"
        /\ content.segs[j].body.enc = "raw"

\* C7: no body returned to the client holds the EICAR signature; when the
\* body about to be returned (rewritten or upstream) holds it, the request fails
C7_NoEicarEmitted ==
    /\ response.kind = "ok" => ~EicarIn(response.body)
    /\ (pc = "done" /\ av.kind = "none" /\ EicarIn(upstream.content))
          => (response.kind = "error" /\ response.body = NoContent)
    /\ (pc = "done" /\ av.kind = "payload" /\ EicarIn(av.data))
          => (response.kind = "error" /\ response.body = NoContent)

C7_Witness ==
    /\ pc = "done"
    /\ av.kind = "none"
    /\ scan_res = << <<"OK", PyNone>> >>
    /\ EicarIn(upstream.content)
    /\ response.kind = "error"

\* a reply that is a verdict: a complete reply whose first line is the 204
\* line, or the 200 line followed by an encapsulated status line
IsVerdict(rsp) ==
    /\ rsp.open
    /\ rsp.blank
    /\ \/ rsp.first_line = "ICAP/1.0 204 No modifications needed"
       \/ rsp.first_line = "ICAP/1.0 200 OK" /\ rsp.http # ""

\* the scanner failed on the attachment scanned last
ScannerFailed == icap_rsp # NoReply /\ ~IsVerdict(icap_rsp)

\* C8: when the scanner fails for an attachment (unreachable, or a reply that
\* is no verdict) the request fails, nothing of the upstream body is returned
\* and the failure is not taken as a verdict
C8_ScanFailureFailsRequest ==
    ScannerFailed =>
        /\ pc = "done"
        /\ response.kind = "error"
        /\ response.body = NoContent

\* the port of the Host header: what follows the last ":", 443 without one
HostPort(h) == IF Len(h) > 1 THEN h[Len(h)] ELSE "443"

\* C9: the profile used is "ip:p" when it exists, else "*:p" when it exists,
\* else the answer is 503 and no upstream call is made; p is the port of Host
C9_ProfileOfClient ==
    pc # "get_client_config" =>
        LET exact == SectionName(request_ip, HostPort(host))
            wild  == SectionName("*", HostPort(host))
        IN IF exact \in sections THEN client_config = exact
           ELSE IF wild \in sections THEN client_config = wild
           ELSE /\ response = Failure("503")
                /\ upstream = NoResponse

\* upstream segment k is an infected attachment
InfectedSeg(k) == (k - 1) \in InfectedSet

RECURSIVE SplicedFrom(_, _, _)
\* out is what is left of the upstream segments up (the first of which is the
\* k-th): a segment is dropped only when it is an infected attachment in
\* remove mode, and a kept segment has its upstream headers and, unless it is
\* an infected attachment or the SOAP part in remove mode, its upstream body
SplicedFrom(out, up, k) ==
    IF up = <<>> THEN out = <<>>
    ELSE \/ /\ out # <<>>
            /\ SameHeaders(Head(out), Head(up))
            /\ \/ Head(out).body = Head(up).body
               \/ InfectedSeg(k)
               \/ k = 1 /\ REMOVE_MALICIOUS
            /\ SplicedFrom(Tail(out), Tail(up), k + 1)
         \/ /\ InfectedSeg(k)
            /\ REMOVE_MALICIOUS
            /\ SplicedFrom(out, Tail(up), k + 1)

\* C10: the emitted body is the surviving upstream segments in upstream order,
\* joined by the declared boundary; segments of attachments that are not
\* infected are the upstream's, and only bodies of infected attachments and,
\* in remove mode, of the SOAP part differ
C10_SpliceKeepsUntouched ==
    Rewritten =>
        /\ response.body.delim = <<"\r\n--", upstream.contentType.boundary>>
        /\ response.body.delim = upstream.content.delim
        /\ SplicedFrom(OutSegs, UpSegs, 1)

C10_Witness ==
    /\ Rewritten
    /\ Len(UpAtts) = 2
    /\ InfectedSet = {1}
    /\ UpAtts[2].cte = "base64"
    /\ OutSegs # UpSegs

\* the Threat name of an X-Infection-Found value written "...Threat=<name>;":
\* what stands between "Threat=" and the ";" that closes it
ThreatName(h) ==
    LET named == {i \in 1..Len(h) : /\ h[i] = "Threat="
                                      /\ i + 2 <= Len(h)
                                      /\ h[i + 1] # ";"
                                      /\ h[i + 2] = ";"}
    IN IF named = {} THEN <<"unknown">>
       ELSE <<h[(CHOOSE i \in named : \A k \in named : i <= k) + 1]>>

ScanError == <<"ScanError">>

\* the outcome the mapping of the ICAP backend gives to a reply
ExpectedOutcome(rsp) ==
    IF ~(rsp.open /\ rsp.blank) THEN ScanError
    ELSE IF rsp.first_line = "ICAP/1.0 204 No modifications needed" THEN <<"OK", PyNone>>
    ELSE IF rsp.first_line # "ICAP/1.0 200 OK" THEN ScanError
    ELSE IF rsp.http = "HTTP/1.0 403 Forbidden" THEN <<"FOUND", ThreatName(rsp.infection)>>
    ELSE IF rsp.http # "" THEN <<"OK", PyNone>>
    ELSE ScanError

\* what the call of scan_file_icap gave
IcapOutcome == IF pc = "raised" THEN ScanError ELSE scan_res[1]

\* C11: scan_file_icap gives every reply the outcome of the mapping: OK for the
\* 204 line, FOUND with the Threat name (or "unknown") for 200 with the 403
\* status line, OK for 200 with another status line, and a scan error, never
\* a verdict, for every other reply, an empty or a cut one included
C11_IcapReplyMapping ==
    pc \in {"returned", "raised"} => IcapOutcome = ExpectedOutcome(icap_rsp)

====
